---- MODULE Spec2Model ----
\* Model of DeviceModelService (src/unnamed/part_000): the ItemsPerMessage limit
\* lookup and the executeSetVariablesAfterBoot chunk loop, one operation per
\* charging station.  The repository, the uuid generator, the send callback and
\* the cache callback are the environment; their results are drawn from the
\* bounded sets below.  The setVariables and getVariables message endpoints of
\* ProvisioningModuleApi (src/01_Provisioning/src/module/api.ts) are modelled
\* at the end, under their own specification SpecApi.
EXTENDS Integers, Sequences, FiniteSets, TLC

\* ---------------------------------------------------------------- bounds
MaxItems == 3       \* longest list readAllSetVariableByStationId returns
MaxLimit == 2       \* largest positive numeral stored as a record's value
MaxResults == 2     \* most setVariableResult entries in one response
MaxDispatch == 4    \* cap on sendSetVariableRequest calls of one operation

Stations == {"cs1", "cs2"}

\* ---------------------------------------------------------------- values
\* A record's textual value is a sequence of characters.
Digits == <<"0", "1", "2", "3", "4", "5", "6", "7", "8", "9">>

DigitChars == {Digits[i] : i \in 1..10}

DigitValue(c) == (CHOOSE i \in 1..10 : Digits[i] = c) - 1

\* Decimal numeral of a natural number below 100.
Decimal(k) == IF k < 10 THEN <<Digits[k + 1]>> ELSE <<Digits[(k \div 10) + 1], Digits[(k % 10) + 1]>>

\* The textual values the attribute store may hold: a non-numeric text, zero,
\* a negative numeral and the positive numerals up to MaxLimit.
Texts == {<<"x">>, <<"0">>, <<"-", "1">>} \cup {Decimal(k) : k \in 1..MaxLimit}

\* What readAllByQuerystring returns: no record, one record, or two records.
AttrLists == {<<>>} \cup {<<t>> : t \in Texts} \cup {<<t, u>> : t \in Texts, u \in Texts}

ItemList(n) == [i \in 1..n |-> i]

Statuses == {"Accepted", "Rejected", "RebootRequired"}

ResultLists == UNION {[1..n -> Statuses] : n \in 0..MaxResults}

\* What cacheCallback resolves to: null, the empty string, a string that is
\* not a SetVariablesResponse document, or a SetVariablesResponse document.
Responses == {[kind |-> k, results |-> <<>>] : k \in {"null", "empty", "garbled"}} \cup {[kind |-> "json", results |-> r] : r \in ResultLists}

\* The IMessageConfirmation sendSetVariableRequest resolves to.
Confirmations == {[success |-> TRUE], [success |-> FALSE]}

Null == [kind |-> "null", val |-> 0]

NaN == [kind |-> "nan", val |-> 0]

Num(v) == [kind |-> "num", val |-> v]

\* ---------------------------------------------------------------- pure functions
RECURSIVE DigitsValue(_, _)
DigitsValue(t, acc) == IF t = <<>> THEN acc ELSE DigitsValue(Tail(t), 10 * acc + DigitValue(Head(t)))

AllDigits(t) == \A i \in 1..Len(t) : t[i] \in DigitChars

\* JavaScript Number(text) on the texts above: the empty text is 0, a decimal
\* numeral with an optional sign is its value, anything else is NaN.
Number(t) == IF t = <<>> THEN Num(0) ELSE IF AllDigits(t) THEN Num(DigitsValue(t, 0)) ELSE IF Head(t) = "-" /\ Len(t) > 1 /\ AllDigits(Tail(t)) THEN Num(0 - DigitsValue(Tail(t), 0)) ELSE NaN

\* getItemsPerMessageSetVariablesByStationId on the records the repository returned.
GetItemsPerMessageLastRecord(records) == IF Len(records) = 0 THEN Null ELSE Number(records[Len(records)])

getItemsPerMessageSetVariablesByStationId(records) == IF Len(records) = 0 THEN Null ELSE Number(records[1])

\* getItemsPerMessageGetVariablesByStationId on the records the repository returned.
getItemsPerMessageGetVariablesByStationId(records) == IF Len(records) = 0 THEN Null ELSE Number(records[1])

\* a ?? b
Coalesce(a, b) == IF a.kind = "null" THEN b ELSE a

\* Array.prototype.slice(start): NaN is 0, a negative start counts from the end.
SliceStart(len, start) == IF start.kind # "num" THEN 0 ELSE IF start.val < 0 THEN (IF len + start.val < 0 THEN 0 ELSE len + start.val) ELSE IF start.val > len THEN len ELSE start.val

SliceSkipsOne(data, start) == SubSeq(data, SliceStart(Len(data), start) + 2, Len(data))

SliceKeepsAll(data, start) == data

Slice(data, start) == SubSeq(data, SliceStart(Len(data), start) + 1, Len(data))

\* if (setVariablesResponseJsonString): null and "" are falsy.
TruthyNotNull(resp) == resp.kind # "null"

TruthyAlways(resp) == TRUE

Truthy(resp) == resp.kind \notin {"null", "empty"}

\* JSON.parse followed by reading setVariableResult: throws on a garbled string.
ParseNeverThrows(resp) == FALSE

ParseThrows(resp) == resp.kind # "json"

HasStatus(resp, st) == \E i \in 1..Len(resp.results) : resp.results[i] = st

\* ---------------------------------------------------------------- state
\* items, attrs, getAttrs: what the repository holds for each station (inputs):
\* the SetVariableData list, the ItemsPerMessage records of instance
\* SetVariables and those of instance GetVariables.
\* getLimit: what getItemsPerMessageGetVariablesByStationId returned, once called.
\* pc .. setVariablesResponseJsonString: position and locals of each operation.
\* sent, waited, answered, folded, seenRejected, seenReboot, minted: history of
\* the calls an operation made and of the responses it was given.
\* endpoint: the call of a message endpoint of ProvisioningModuleApi
\* (src/01_Provisioning/src/module/api.ts): its position, request, locals and
\* the sendCall requests it made.
VARIABLES endpoint, items, attrs, getAttrs, getLimit, pc, setVariableData, itemsPerMessageSetVariables, rejectedSetVariable, rebootSetVariable, correlationId, confirmation, setVariablesResponseJsonString, sent, waited, answered, folded, seenRejected, seenReboot, minted, outcome

vars == <<endpoint, items, attrs, getAttrs, getLimit, pc, setVariableData, itemsPerMessageSetVariables, rejectedSetVariable, rebootSetVariable, correlationId, confirmation, setVariablesResponseJsonString, sent, waited, answered, folded, seenRejected, seenReboot, minted, outcome>>

inputs == <<endpoint, items, attrs, getAttrs, getLimit>>

NotCalled == [kind |-> "none", val |-> 0]

flags == <<rejectedSetVariable, rebootSetVariable>>

history == <<sent, waited, answered, folded, seenRejected, seenReboot, minted>>

NoResponse == [kind |-> "none", results |-> <<>>]

NoOutcome == [kind |-> "none", flags |-> <<FALSE, FALSE>>, error |-> ""]

Returned(fl) == [kind |-> "returned", flags |-> fl, error |-> ""]

Thrown(error) == [kind |-> "error", flags |-> <<FALSE, FALSE>>, error |-> error]

\* An IMessageConfirmation payload: undefined, or a list of items.
NoPayload == [present |-> FALSE, items |-> <<>>]

PayloadOf(q) == [present |-> TRUE, items |-> q]

\* The result of an endpoint call: none yet, a confirmation, or an error.
NoResult == [kind |-> "none", confirmation |-> [success |-> FALSE, payload |-> NoPayload], error |-> ""]

ResultOf(conf) == [kind |-> "returned", confirmation |-> conf, error |-> ""]

ErrorOf(error) == [kind |-> "error", confirmation |-> [success |-> FALSE, payload |-> NoPayload], error |-> error]

\* A message endpoint called with a request holding the list data.
Request(action, data) == [pc |-> "called", action |-> action, data |-> data, attributes |-> <<>>, itemsPerMessage |-> Null, subset |-> <<>>, finalMessageConfirmation |-> [success |-> TRUE, payload |-> NoPayload], calls |-> <<>>, result |-> NoResult]

\* No message endpoint is called.
NoRequest == [Request("SetVariables", <<>>) EXCEPT !.pc = "off"]

InitStations(active, maxItems) ==
    /\ items \in [Stations -> {ItemList(n) : n \in 0..maxItems}]
    /\ attrs \in [Stations -> AttrLists]
    /\ \A s \in Stations \ active : items[s] = <<>> /\ attrs[s] = <<>>
    /\ getAttrs = [s \in Stations |-> <<>>]
    /\ getLimit = [s \in Stations |-> NotCalled]
    /\ pc = [s \in Stations |-> IF s \in active THEN "idle" ELSE "off"]
    /\ setVariableData = [s \in Stations |-> <<>>]
    /\ itemsPerMessageSetVariables = [s \in Stations |-> Null]
    /\ rejectedSetVariable = [s \in Stations |-> FALSE]
    /\ rebootSetVariable = [s \in Stations |-> FALSE]
    /\ correlationId = [s \in Stations |-> 0]
    /\ confirmation = [s \in Stations |-> [success |-> TRUE]]
    /\ setVariablesResponseJsonString = [s \in Stations |-> NoResponse]
    /\ sent = [s \in Stations |-> <<>>]
    /\ waited = [s \in Stations |-> <<>>]
    /\ answered = [s \in Stations |-> <<>>]
    /\ folded = [s \in Stations |-> 0]
    /\ seenRejected = [s \in Stations |-> FALSE]
    /\ seenReboot = [s \in Stations |-> FALSE]
    /\ minted = 0
    /\ outcome = [s \in Stations |-> NoOutcome]

InitFor(active, maxItems) == InitStations(active, maxItems) /\ endpoint = NoRequest

Init == InitFor({"cs1"}, MaxItems)

\* ---------------------------------------------------------------- actions
\* Lines 157-162: the flags start false and the list is read from the repository.
Begin(s) ==
    /\ pc[s] = "idle"
    /\ rejectedSetVariable' = [rejectedSetVariable EXCEPT ![s] = FALSE]
    /\ rebootSetVariable' = [rebootSetVariable EXCEPT ![s] = FALSE]
    /\ setVariableData' = [setVariableData EXCEPT ![s] = items[s]]
    /\ pc' = [pc EXCEPT ![s] = "lookup"]
    /\ UNCHANGED <<inputs, itemsPerMessageSetVariables, correlationId, confirmation, setVariablesResponseJsonString, history, outcome>>

\* Lines 165-167: the limit, or the list's length when no record exists.
DefaultLimitOne(data) == Num(1)

DefaultLimit(data) == Num(Len(data))

LookupLimit(s) ==
    /\ pc[s] = "lookup"
    /\ itemsPerMessageSetVariables' = [itemsPerMessageSetVariables EXCEPT ![s] = Coalesce(getItemsPerMessageSetVariablesByStationId(attrs[s]), DefaultLimit(setVariableData[s]))]
    /\ pc' = [pc EXCEPT ![s] = "loop"]
    /\ UNCHANGED <<inputs, setVariableData, flags, correlationId, confirmation, setVariablesResponseJsonString, history, outcome>>

\* Lines 169-176: the list is not empty; a fresh correlation id is minted and
\* sendSetVariableRequest is called with it, the remaining list and the limit.
UuidConstant(n) == 1

UuidOfTwo(n) == (n % 2) + 1

\* Line 170: uuidv4() after n ids were minted: an id never returned before.
uuidv4(n) == n + 1

Dispatch(s) ==
    /\ pc[s] = "loop"
    /\ Len(setVariableData[s]) > 0
    /\ Len(sent[s]) < MaxDispatch
    /\ minted' = minted + 1
    /\ correlationId' = [correlationId EXCEPT ![s] = uuidv4(minted)]
    /\ sent' = [sent EXCEPT ![s] = Append(@, [correlationId |-> uuidv4(minted), data |-> setVariableData[s], limit |-> itemsPerMessageSetVariables[s]])]
    /\ pc' = [pc EXCEPT ![s] = "sending"]
    /\ UNCHANGED <<inputs, setVariableData, itemsPerMessageSetVariables, flags, confirmation, setVariablesResponseJsonString, waited, answered, folded, seenRejected, seenReboot, outcome>>

\* Lines 169, 204: the list is empty; the two flags are returned.
Return(s) ==
    /\ pc[s] = "loop"
    /\ Len(setVariableData[s]) = 0
    /\ outcome' = [outcome EXCEPT ![s] = Returned(<<rejectedSetVariable[s], rebootSetVariable[s]>>)]
    /\ pc' = [pc EXCEPT ![s] = "done"]
    /\ UNCHANGED <<inputs, setVariableData, itemsPerMessageSetVariables, flags, correlationId, confirmation, setVariablesResponseJsonString, history>>

\* Line 172: the awaited sendSetVariableRequest promise rejects; the operation throws.
SendRejects(s) ==
    /\ pc[s] = "sending"
    /\ outcome' = [outcome EXCEPT ![s] = Thrown("send")]
    /\ pc' = [pc EXCEPT ![s] = "failed"]
    /\ UNCHANGED <<inputs, setVariableData, itemsPerMessageSetVariables, flags, correlationId, confirmation, setVariablesResponseJsonString, history>>

\* Line 180: the loop waits for the response of the chunk just sent before anything else.
AfterSliceNoWait(remaining) == IF Len(remaining) > 0 THEN "loop" ELSE "awaiting"

AfterSlice(remaining) == "awaiting"

\* Lines 172-180: the promise resolves with a confirmation, which is dropped;
\* the list is sliced and cacheCallback is called with the correlation id.
SendResolves(s) ==
    /\ pc[s] = "sending"
    /\ \E conf \in Confirmations : confirmation' = [confirmation EXCEPT ![s] = conf]
    /\ setVariableData' = [setVariableData EXCEPT ![s] = Slice(@, itemsPerMessageSetVariables[s])]
    /\ waited' = [waited EXCEPT ![s] = Append(@, correlationId[s])]
    /\ pc' = [pc EXCEPT ![s] = AfterSlice(Slice(setVariableData[s], itemsPerMessageSetVariables[s]))]
    /\ UNCHANGED <<inputs, itemsPerMessageSetVariables, flags, correlationId, setVariablesResponseJsonString, sent, answered, folded, seenRejected, seenReboot, minted, outcome>>

\* Line 180: cacheCallback resolves to one of the given values.
CacheCallbackResolvesTo(s, responses) ==
    /\ pc[s] = "awaiting"
    /\ \E resp \in responses :
        /\ setVariablesResponseJsonString' = [setVariablesResponseJsonString EXCEPT ![s] = resp]
        /\ seenRejected' = [seenRejected EXCEPT ![s] = @ \/ HasStatus(resp, "Rejected")]
        /\ seenReboot' = [seenReboot EXCEPT ![s] = @ \/ HasStatus(resp, "RebootRequired")]
    /\ answered' = [answered EXCEPT ![s] = Append(@, correlationId[s])]
    /\ pc' = [pc EXCEPT ![s] = "response"]
    /\ UNCHANGED <<inputs, setVariableData, itemsPerMessageSetVariables, flags, correlationId, confirmation, sent, waited, folded, minted, outcome>>

\* Line 180: cacheCallback resolves.
CacheCallbackResolves(s) == CacheCallbackResolvesTo(s, Responses)

\* Lines 191-197: one setVariableResult entry.
InspectOverwrite(status, fl) == <<status = "Rejected", status = "RebootRequired">>

Inspect(status, fl) == IF status = "Rejected" THEN <<TRUE, fl[2]>> ELSE IF status = "RebootRequired" THEN <<fl[1], TRUE>> ELSE fl

\* Line 190: forEach over setVariableResult.
RECURSIVE ForEachResult(_, _)
ForEachResult(results, fl) == IF results = <<>> THEN fl ELSE ForEachResult(Tail(results), Inspect(Head(results), fl))

\* Line 183: both flags are already set.
BothSetOr(rejected, reboot) == rejected \/ reboot

BothSet(rejected, reboot) == rejected /\ reboot

\* Lines 182-185: the response is present and both flags are set: continue.
Skip(s) ==
    /\ pc[s] = "response"
    /\ Truthy(setVariablesResponseJsonString[s])
    /\ BothSet(rejectedSetVariable[s], rebootSetVariable[s])
    /\ folded' = [folded EXCEPT ![s] = @ + 1]
    /\ pc' = [pc EXCEPT ![s] = "loop"]
    /\ UNCHANGED <<inputs, setVariableData, itemsPerMessageSetVariables, flags, correlationId, confirmation, setVariablesResponseJsonString, sent, waited, answered, seenRejected, seenReboot, minted, outcome>>

\* Lines 187-198: the response is present, is parsed and its results are inspected.
Fold(s) ==
    /\ pc[s] = "response"
    /\ Truthy(setVariablesResponseJsonString[s])
    /\ ~BothSet(rejectedSetVariable[s], rebootSetVariable[s])
    /\ ~ParseThrows(setVariablesResponseJsonString[s])
    /\ LET fl == ForEachResult(setVariablesResponseJsonString[s].results, <<rejectedSetVariable[s], rebootSetVariable[s]>>)
       IN /\ rejectedSetVariable' = [rejectedSetVariable EXCEPT ![s] = fl[1]]
          /\ rebootSetVariable' = [rebootSetVariable EXCEPT ![s] = fl[2]]
    /\ folded' = [folded EXCEPT ![s] = @ + 1]
    /\ pc' = [pc EXCEPT ![s] = "loop"]
    /\ UNCHANGED <<inputs, setVariableData, itemsPerMessageSetVariables, correlationId, confirmation, setVariablesResponseJsonString, sent, waited, answered, seenRejected, seenReboot, minted, outcome>>

\* Lines 187-190: JSON.parse, or the read of setVariableResult, throws.
ParseFails(s) ==
    /\ pc[s] = "response"
    /\ Truthy(setVariablesResponseJsonString[s])
    /\ ~BothSet(rejectedSetVariable[s], rebootSetVariable[s])
    /\ ParseThrows(setVariablesResponseJsonString[s])
    /\ outcome' = [outcome EXCEPT ![s] = Thrown("parse")]
    /\ pc' = [pc EXCEPT ![s] = "failed"]
    /\ UNCHANGED <<inputs, setVariableData, itemsPerMessageSetVariables, flags, correlationId, confirmation, setVariablesResponseJsonString, history>>

\* Lines 199-201: the response is null or empty.
NotFound(s) ==
    /\ pc[s] = "response"
    /\ ~Truthy(setVariablesResponseJsonString[s])
    /\ outcome' = [outcome EXCEPT ![s] = Thrown("SetVariables response not found")]
    /\ pc' = [pc EXCEPT ![s] = "failed"]
    /\ UNCHANGED <<inputs, setVariableData, itemsPerMessageSetVariables, flags, correlationId, confirmation, setVariablesResponseJsonString, history>>

Next ==
    \E s \in Stations :
        \/ Begin(s)
        \/ LookupLimit(s)
        \/ Dispatch(s)
        \/ Return(s)
        \/ SendRejects(s)
        \/ SendResolves(s)
        \/ CacheCallbackResolves(s)
        \/ Skip(s)
        \/ Fold(s)
        \/ ParseFails(s)
        \/ NotFound(s)

Spec == Init /\ [][Next]_vars

\* ---------------------------------------------------------------- the two lookups
\* Lines 64-83: a call of getItemsPerMessageGetVariablesByStationId for a station;
\* the repository answers the query with some list of records.  The call shares
\* no state with executeSetVariablesAfterBoot, so it is taken once the station's
\* operation has ended.
GetLookup(s) ==
    /\ pc[s] \in {"done", "failed"}
    /\ getLimit[s] = NotCalled
    /\ \E records \in AttrLists :
        /\ getAttrs' = [getAttrs EXCEPT ![s] = records]
        /\ getLimit' = [getLimit EXCEPT ![s] = getItemsPerMessageGetVariablesByStationId(records)]
    /\ UNCHANGED <<endpoint, items, attrs, pc, setVariableData, itemsPerMessageSetVariables, flags, correlationId, confirmation, setVariablesResponseJsonString, history, outcome>>

\* The lookups do not depend on the list: lists of at most one item.
InitLookup == InitFor({"cs1"}, 1)

NextLookup == Next \/ \E s \in Stations : GetLookup(s)

SpecLookup == InitLookup /\ [][NextLookup]_vars
\* ---------------------------------------------------------------- properties
Running == {s \in Stations : pc[s] # "off"}

\* The operation of s has read its limit.
PastLookup(s) == pc[s] \notin {"off", "idle", "lookup"}

Limit(s) == itemsPerMessageSetVariables[s]

PositiveLimit(s) == Limit(s).kind = "num" /\ Limit(s).val > 0

CeilDiv(n, l) == (n + l - 1) \div l

Min(a, b) == IF a < b THEN a ELSE b

\* The first l items of a list.
FirstItems(data, l) == SubSeq(data, 1, Min(l, Len(data)))

\* The items request d covers: the first d.limit items of the list it was given.
Covered(d) == FirstItems(d.data, d.limit.val)

RECURSIVE ConcatCovered(_)
ConcatCovered(ds) == IF ds = <<>> THEN <<>> ELSE Covered(Head(ds)) \o ConcatCovered(Tail(ds))

SeqRange(q) == {q[i] : i \in 1..Len(q)}

SentIds(s) == {sent[s][i].correlationId : i \in 1..Len(sent[s])}

\* C1: when the operation on a non-empty list of n items with a positive limit L
\* has returned, it made exactly ceil(n/L) requests, the i-th was given the list
\* left after the first (i-1)*L items and covers its first L items (the last one
\* what is left), and the covered items in dispatch order are the original list.
C1_ChunksCoverList ==
    \A s \in Running :
        (pc[s] = "done" /\ Len(items[s]) > 0 /\ PositiveLimit(s)) =>
            LET n == Len(items[s])
                l == Limit(s).val
            IN /\ Len(sent[s]) = CeilDiv(n, l)
               /\ \A i \in 1..Len(sent[s]) :
                    /\ sent[s][i].limit = Num(l)
                    /\ sent[s][i].data = SubSeq(items[s], (i - 1) * l + 1, n)
                    /\ Covered(sent[s][i]) = SubSeq(items[s], (i - 1) * l + 1, Min(i * l, n))
                    /\ (i < Len(sent[s]) => Len(Covered(sent[s][i])) = l)
               /\ ConcatCovered(sent[s]) = items[s]

\* Three items under a limit of two: two requests, the last one shorter.
C1_Witness == pc["cs1"] = "done" /\ Len(items["cs1"]) = 3 /\ Limit("cs1") = Num(2) /\ Len(sent["cs1"]) = 2 /\ Len(attrs["cs1"]) = 1

\* C2: when the operation has returned, its first flag tells whether some
\* response held a Rejected result and its second whether some response held a
\* RebootRequired result.
C2_FlagsAreTheOrOverChunks ==
    \A s \in Running :
        pc[s] = "done" =>
            /\ outcome[s].kind = "returned"
            /\ outcome[s].flags[1] = seenRejected[s]
            /\ outcome[s].flags[2] = seenReboot[s]

\* Returned with both flags set after three chunks of which the last one held a
\* RebootRequired and no Rejected result.
C2_Witness ==
    /\ pc["cs1"] = "done"
    /\ Len(sent["cs1"]) = 3
    /\ outcome["cs1"].flags = <<TRUE, TRUE>>
    /\ HasStatus(setVariablesResponseJsonString["cs1"], "RebootRequired")
    /\ ~HasStatus(setVariablesResponseJsonString["cs1"], "Rejected")

\* C3: at most one correlation id of an operation has been sent and not yet
\* answered, and while a request is being sent every earlier request has been
\* answered and its response folded.
C3_SequentialDispatch ==
    \A s \in Running :
        /\ Cardinality(SentIds(s) \ SeqRange(answered[s])) <= 1
        /\ pc[s] = "sending" => (Len(answered[s]) = Len(sent[s]) - 1 /\ folded[s] = Len(sent[s]) - 1)

\* The third request is being sent.
C3_Witness == pc["cs1"] = "sending" /\ Len(sent["cs1"]) = 3 /\ folded["cs1"] = 2

\* C4: once cacheCallback has resolved to null or to the empty string, the
\* operation can only throw: it never goes on, never returns the flags and no
\* request follows the one that was not answered.
C4_MissingResponseFails ==
    \A s \in Running :
        setVariablesResponseJsonString[s].kind \in {"null", "empty"} =>
            /\ pc[s] \in {"response", "failed"}
            /\ pc[s] = "response" => (ENABLED (NotFound(s) \/ ParseFails(s)) /\ ~ENABLED (Skip(s) \/ Fold(s)))
            /\ pc[s] = "failed" => outcome[s].kind = "error"
            /\ Len(sent[s]) = Len(answered[s])

\* The second response is the empty string, while both flags are set, and the operation failed.
C4_Witness ==
    /\ pc["cs1"] = "failed"
    /\ setVariablesResponseJsonString["cs1"].kind = "empty"
    /\ Len(sent["cs1"]) = 2
    /\ Len(setVariableData["cs1"]) > 0
    /\ rejectedSetVariable["cs1"] /\ rebootSetVariable["cs1"]

\* C5 (as claimed): with two or more ItemsPerMessage records the lookup fails:
\* the operation ends in an error as soon as it has read its limit, and a call
\* of the GetVariables lookup returns no number.
C5_TwoRecordsFail ==
    \A s \in Running :
        /\ (Len(attrs[s]) >= 2 /\ PastLookup(s)) => (pc[s] = "failed" /\ Len(sent[s]) = 0)
        /\ (Len(getAttrs[s]) >= 2 /\ getLimit[s] # NotCalled) => getLimit[s].kind = "error"

\* The value a numeral text stands for, NaN for the non-numeric text.
ValueOfText(t) == IF t = <<"x">> THEN NaN ELSE IF t = <<"-", "1">> THEN Num(0 - 1) ELSE Num(CHOOSE k \in 0..MaxLimit : Decimal(k) = t)

\* C5 (amended): with two or more records neither lookup fails; each returns
\* the number the first record's value stands for, whatever the other records
\* hold, and the operation sends its requests with that limit.
C5_FirstRecordIsUsed ==
    \A s \in Running :
        /\ (Len(attrs[s]) >= 2 /\ PastLookup(s)) =>
            /\ Limit(s) = ValueOfText(attrs[s][1])
            /\ \A i \in 1..Len(sent[s]) : sent[s][i].limit = ValueOfText(attrs[s][1])
            /\ outcome[s].error \notin {"consistency"}
        /\ (Len(getAttrs[s]) >= 2 /\ getLimit[s] # NotCalled) => getLimit[s] = ValueOfText(getAttrs[s][1])

\* Two records holding 2 and 1: the operation sent with limit 2 and the
\* GetVariables lookup, given records holding 1 and 2, returned 1.
C5_Witness ==
    /\ attrs["cs1"] = <<Decimal(2), Decimal(1)>>
    /\ Len(sent["cs1"]) >= 1
    /\ sent["cs1"][1].limit = Num(2)
    /\ getAttrs["cs1"] = <<Decimal(1), Decimal(2)>>
    /\ getLimit["cs1"] = Num(1)

\* The single record's value is not a positive number.
InvalidLimitRecord(s) == Len(attrs[s]) = 1 /\ (ValueOfText(attrs[s][1]).kind = "nan" \/ ValueOfText(attrs[s][1]).val <= 0)

\* C6 (as claimed): when the single limit record holds a non-numeric, zero or
\* negative value and the list holds items to send, no request is ever sent and
\* the operation never returns the flags: it fails before the first chunk.
C6_InvalidLimitFails ==
    \A s \in Running :
        (InvalidLimitRecord(s) /\ Len(items[s]) > 0) =>
            /\ Len(sent[s]) = 0
            /\ outcome[s].kind # "returned"

\* C7: with no limit record and n > 0 items, at most one request is made, it is
\* given and covers all n items, and an operation that ended made exactly one
\* and used one correlation id; with no items, no request is made, cacheCallback
\* is never called, the operation never fails and returns both flags false.
C7_NoLimitOneRequestEmptyNone ==
    \A s \in Running :
        /\ (Len(attrs[s]) = 0 /\ Len(items[s]) > 0) =>
            /\ Len(sent[s]) <= 1
            /\ \A i \in 1..Len(sent[s]) : sent[s][i].data = items[s] /\ Covered(sent[s][i]) = items[s]
            /\ pc[s] \in {"done", "failed"} => (Len(sent[s]) = 1 /\ Cardinality(SentIds(s)) = 1 /\ SeqRange(waited[s]) \subseteq SentIds(s))
        /\ Len(items[s]) = 0 =>
            /\ Len(sent[s]) = 0
            /\ Len(waited[s]) = 0
            /\ pc[s] \in {"idle", "lookup", "loop", "done"}
            /\ pc[s] = "loop" => ENABLED Return(s)
            /\ pc[s] = "done" => outcome[s] = Returned(<<FALSE, FALSE>>)

\* No record, three items: returned after one request.
C7_Witness == pc["cs1"] = "done" /\ attrs["cs1"] = <<>> /\ Len(items["cs1"]) = 3 /\ Len(sent["cs1"]) = 1 /\ folded["cs1"] = 1

\* C8 (as claimed): when sendSetVariableRequest rejects or resolves with a
\* confirmation that is not a success, the operation has failed: cacheCallback
\* is not called with that request's correlation id and no request follows.
C8_SendFailureAborts ==
    \A s \in Running :
        /\ outcome[s].error = "send" => (pc[s] = "failed" /\ correlationId[s] \notin SeqRange(waited[s]))
        /\ ~confirmation[s].success => (pc[s] = "failed" /\ correlationId[s] \notin SeqRange(waited[s]))

\* C9 (as claimed): once cacheCallback has resolved to a string that does not
\* decode, the operation can only throw, whatever the flags are.
C9_GarbledAlwaysFails ==
    \A s \in Running :
        setVariablesResponseJsonString[s].kind = "garbled" =>
            /\ pc[s] \in {"response", "failed"}
            /\ pc[s] = "response" => ~ENABLED (Skip(s) \/ Fold(s))

\* C9 (amended): a string that does not decode fails the operation with the
\* decoder's error when at most one flag is set as it is read; when both flags
\* are set it is not decoded: the chunk counts as folded and the loop goes on.
C9_GarbledFailsUnlessBothFlags ==
    \A s \in Running :
        setVariablesResponseJsonString[s].kind = "garbled" =>
            IF rejectedSetVariable[s] /\ rebootSetVariable[s]
            THEN /\ outcome[s].error # "parse"
                 /\ pc[s] = "response" => (ENABLED Skip(s) /\ ~ENABLED (ParseFails(s) \/ NotFound(s)))
                 /\ pc[s] # "response" => folded[s] = Len(answered[s])
            ELSE /\ pc[s] \in {"response", "failed"}
                 /\ pc[s] = "response" => (ENABLED ParseFails(s) /\ ~ENABLED (Skip(s) \/ Fold(s)))
                 /\ pc[s] = "failed" => outcome[s] = Thrown("parse")
                 /\ Len(sent[s]) = Len(answered[s])

\* The second response does not decode while only the Rejected flag is set: the operation threw.
C9_Witness ==
    /\ pc["cs1"] = "failed"
    /\ outcome["cs1"] = Thrown("parse")
    /\ Len(sent["cs1"]) = 2
    /\ rejectedSetVariable["cs1"] /\ ~rebootSetVariable["cs1"]
    /\ setVariablesResponseJsonString["cs1"].kind = "garbled"

\* C10: the flags are false when the operation starts; no step turns a flag
\* that is true to false; and each step that consumes a response leaves each
\* flag true exactly when it was true or the response holds its own status,
\* whatever the other flag is.
C10_FlagsMonotonic ==
    [][\A s \in Running :
        /\ (pc[s] = "idle" /\ pc'[s] # "idle") => (~rejectedSetVariable'[s] /\ ~rebootSetVariable'[s])
        /\ rejectedSetVariable[s] => rejectedSetVariable'[s]
        /\ rebootSetVariable[s] => rebootSetVariable'[s]
        /\ (pc[s] = "response" /\ pc'[s] = "loop") =>
            /\ rejectedSetVariable'[s] = (rejectedSetVariable[s] \/ HasStatus(setVariablesResponseJsonString[s], "Rejected"))
            /\ rebootSetVariable'[s] = (rebootSetVariable[s] \/ HasStatus(setVariablesResponseJsonString[s], "RebootRequired"))
        /\ (pc[s] # "response" /\ pc[s] # "idle") => (rejectedSetVariable'[s] = rejectedSetVariable[s] /\ rebootSetVariable'[s] = rebootSetVariable[s])]_vars

\* The Rejected flag is set and stayed set through a second response that held only Accepted results.
C10_Witness ==
    /\ pc["cs1"] = "loop"
    /\ folded["cs1"] = 2
    /\ rejectedSetVariable["cs1"] /\ ~rebootSetVariable["cs1"]
    /\ setVariablesResponseJsonString["cs1"] = [kind |-> "json", results |-> <<"Accepted">>]

InitLive == Init /\ \A s \in Stations : Len(attrs[s]) <= 1

\* Every awaited call of the operation returns: a step that can be taken is taken.
SpecLive == InitLive /\ [][Next]_vars /\ WF_vars(Next)

\* No limit record, or a first record holding a positive number.
AbsentOrPositiveLimit(s) == attrs[s] = <<>> \/ (ValueOfText(attrs[s][1]).kind = "num" /\ ValueOfText(attrs[s][1]).val > 0)

\* C12: an operation whose limit is absent or positive ends, returned or
\* failed; the list it hands to each request is shorter than the one before, so
\* it makes no more requests than the list has items.
C12_Terminates ==
    /\ \A s \in Stations : (pc[s] = "idle" /\ AbsentOrPositiveLimit(s)) ~> (pc[s] \in {"done", "failed"})
    /\ [](\A s \in Running :
            AbsentOrPositiveLimit(s) =>
                /\ Len(sent[s]) <= Len(items[s])
                /\ \A i \in 1..(Len(sent[s]) - 1) : Len(sent[s][i + 1].data) < Len(sent[s][i].data)
                /\ pc[s] \in {"loop", "awaiting", "response", "done"} => Len(setVariableData[s]) <= Len(items[s]) - Len(sent[s]))

\* Three items under a limit of one: returned after three requests.
C12_Witness == pc["cs1"] = "done" /\ Len(items["cs1"]) = 3 /\ Limit("cs1") = Num(1) /\ Len(sent["cs1"]) = 3 /\ attrs["cs1"] = <<Decimal(1)>>

\* ---------------------------------------------------------------- two operations
\* Responses of at most one result, and the one that sets both flags at once.
ShortResponses == {r \in Responses : Len(r.results) <= 1 \/ r.results = <<"Rejected", "RebootRequired">>}

\* Both stations run the operation, each on a list of at most two items and
\* with no limit record or one record holding 1.
InitTwo == InitFor(Stations, 2) /\ \A s \in Stations : attrs[s] \in {<<>>, <<Decimal(1)>>}

NextTwo ==
    \E s \in Stations :
        \/ Begin(s)
        \/ LookupLimit(s)
        \/ Dispatch(s)
        \/ Return(s)
        \/ SendRejects(s)
        \/ SendResolves(s)
        \/ CacheCallbackResolvesTo(s, ShortResponses)
        \/ Skip(s)
        \/ Fold(s)
        \/ ParseFails(s)
        \/ NotFound(s)

SpecTwo == InitTwo /\ [][NextTwo]_vars

\* Everything one station's operation owns.
StationState(s) == <<items[s], attrs[s], pc[s], setVariableData[s], itemsPerMessageSetVariables[s], rejectedSetVariable[s], rebootSetVariable[s], correlationId[s], confirmation[s], setVariablesResponseJsonString[s], sent[s], waited[s], answered[s], folded[s], seenRejected[s], seenReboot[s], outcome[s]>>

\* The limit an operation running alone uses: the list's length with no record,
\* else the number of the first record.
LimitAlone(s) == IF attrs[s] = <<>> THEN Len(items[s]) ELSE ValueOfText(attrs[s][1]).val

\* C13: with the steps of two stations' operations interleaved, no step of one
\* changes anything the other owns; each operation calls cacheCallback only with
\* ids it minted itself, which the other never mints; its i-th request carries
\* the list and limit it would carry running alone; and the flags it returns
\* are the OR over the responses it was given itself.
C13_NoInterference ==
    /\ [][\A s \in Stations : \A u \in Stations \ {s} : (StationState(s)' # StationState(s)) => (StationState(u)' = StationState(u))]_vars
    /\ [](\A s \in Stations :
            /\ SeqRange(waited[s]) \subseteq SentIds(s)
            /\ Cardinality(SentIds(s)) = Len(sent[s])
            /\ \A u \in Stations \ {s} : SentIds(s) \cap SentIds(u) = {}
            /\ \A i \in 1..Len(sent[s]) :
                /\ sent[s][i].limit = Num(LimitAlone(s))
                /\ sent[s][i].data = SubSeq(items[s], (i - 1) * LimitAlone(s) + 1, Len(items[s]))
            /\ pc[s] = "done" => outcome[s] = Returned(<<seenRejected[s], seenReboot[s]>>))

\* Both operations returned after two requests each, their requests
\* alternating, one with only the Rejected flag and one with only the RebootRequired flag.
C13_Witness ==
    /\ pc["cs1"] = "done" /\ pc["cs2"] = "done"
    /\ SentIds("cs1") = {1, 3} /\ SentIds("cs2") = {2, 4}
    /\ outcome["cs1"].flags = <<TRUE, FALSE>>
    /\ outcome["cs2"].flags = <<FALSE, TRUE>>

\* The operation of s failed on the response of its last request, which was of
\* the given kind.
FailedOnResponse(s, kind) == pc[s] = "failed" /\ Len(answered[s]) = Len(sent[s]) /\ Len(sent[s]) > 0 /\ setVariablesResponseJsonString[s].kind = kind

\* C14 (as stated): an operation failing on a response that never arrived (null)
\* and one failing on a response that is present but empty report different
\* errors, so the caller can tell the two apart.
C14_NullAndEmptyDiffer ==
    \A s \in Running : \A u \in Running :
        (FailedOnResponse(s, "null") /\ FailedOnResponse(u, "empty")) => outcome[s].error # outcome[u].error

\* C14 (amended): an operation failing on a null response and one failing on an
\* empty response both report the one error 'SetVariables response not found',
\* which the caller cannot tell apart; it differs only from the error of a
\* response that cannot be decoded and from the error of a rejected send.
C14_NullAndEmptySameError ==
    \A s \in Running :
        /\ (FailedOnResponse(s, "null") \/ FailedOnResponse(s, "empty")) => outcome[s] = Thrown("SetVariables response not found")
        /\ FailedOnResponse(s, "garbled") => outcome[s] = Thrown("parse")
        /\ \A u \in Running : (FailedOnResponse(s, "null") /\ FailedOnResponse(u, "empty")) => outcome[s] = outcome[u]

C14_Witness == FailedOnResponse("cs1", "null") /\ FailedOnResponse("cs2", "empty") /\ outcome["cs1"] = outcome["cs2"] /\ outcome["cs1"].kind = "error"

\* C15: the correlation ids of an operation's requests are pairwise different;
\* cacheCallback was called with the id of each request whose send succeeded,
\* once and in dispatch order, and resolved once for each; a further id is
\* minted only when every earlier one has been read, whatever the flags are.
C15_IdsFreshAndDrainedOnce ==
    \A s \in Running :
        /\ \A i \in 1..Len(sent[s]) : \A j \in 1..Len(sent[s]) : i # j => sent[s][i].correlationId # sent[s][j].correlationId
        /\ Len(waited[s]) <= Len(sent[s]) /\ Len(sent[s]) - Len(waited[s]) <= 1
        /\ \A i \in 1..Len(waited[s]) : waited[s][i] = sent[s][i].correlationId
        /\ Len(answered[s]) <= Len(waited[s]) /\ Len(waited[s]) - Len(answered[s]) <= 1
        /\ \A i \in 1..Len(answered[s]) : answered[s][i] = waited[s][i]
        /\ Len(sent[s]) > Len(waited[s]) => pc[s] \in {"sending", "failed"}
        /\ pc[s] \in {"loop", "done"} => (Len(waited[s]) = Len(sent[s]) /\ Len(answered[s]) = Len(sent[s]))
        /\ pc[s] = "sending" => (Len(waited[s]) = Len(sent[s]) - 1 /\ Len(answered[s]) = Len(sent[s]) - 1 /\ correlationId[s] = sent[s][Len(sent[s])].correlationId)

\* The response of a third request has been read although both flags were
\* already true when it was sent.
C15_Witness ==
    /\ pc["cs1"] = "response"
    /\ Len(sent["cs1"]) = 3
    /\ answered["cs1"] = <<1, 2, 3>>
    /\ waited["cs1"] = <<1, 2, 3>>
    /\ rejectedSetVariable["cs1"] /\ rebootSetVariable["cs1"]

\* ---------------------------------------------------------------- message endpoints
\* api.ts lines 54-90 and 92-128: setVariables and getVariables, which differ
\* only in the call action and in the instance of the ItemsPerMessage records.
CallActions == {"SetVariables", "GetVariables"}

\* What sendCall resolves to: a confirmation with or without a payload.
MessageConfirmations == {[success |-> b, payload |-> pl] : b \in BOOLEAN, pl \in {NoPayload, PayloadOf(<<>>)}}

\* Array.prototype.slice(0, end): NaN is 0, a negative end counts from the end.
SliceEnd(len, end) == IF end.kind # "num" THEN 0 ELSE IF end.val < 0 THEN (IF len + end.val < 0 THEN 0 ELSE len + end.val) ELSE IF end.val > len THEN len ELSE end.val

SliceFromStart(data, end) == SubSeq(data, 1, SliceEnd(Len(data), end))

\* Lines 68, 82, 86 (106, 120, 124): the branch taken on the records read.
BranchOnAnyRecord(records) == IF Len(records) = 0 THEN "single" ELSE "chunked"

Branch(records) == IF Len(records) = 1 THEN "chunked" ELSE IF Len(records) = 0 THEN "single" ELSE "violation"

\* Lines 61-70, 82-89: readAllByQuery resolves with some records.  One record:
\* the confirmation to return starts as a success and the limit is the number
\* of the record's value.  No record: sendCall is called with the whole list.
\* Otherwise the endpoint throws.
ReadAllByQuery ==
    /\ endpoint.pc = "called"
    /\ \E records \in AttrLists :
        endpoint' = IF Branch(records) = "chunked"
                    THEN [endpoint EXCEPT !.attributes = records, !.itemsPerMessage = Number(records[1]), !.finalMessageConfirmation = [success |-> TRUE, payload |-> NoPayload], !.pc = "loop"]
                    ELSE IF Branch(records) = "single"
                    THEN [endpoint EXCEPT !.attributes = records, !.calls = Append(@, endpoint.data), !.pc = "single"]
                    ELSE [endpoint EXCEPT !.attributes = records, !.result = ErrorOf("Violation of Standard Component Structure"), !.pc = "thrown"]
    /\ UNCHANGED <<items, attrs, getAttrs, getLimit, pc, setVariableData, itemsPerMessageSetVariables, flags, correlationId, confirmation, setVariablesResponseJsonString, history, outcome>>

\* Lines 71-74: the list is not empty; sendCall is called with its first
\* itemsPerMessage items.
ChunkSend ==
    /\ endpoint.pc = "loop"
    /\ Len(endpoint.data) > 0
    /\ Len(endpoint.calls) < MaxDispatch
    /\ endpoint' = [endpoint EXCEPT !.subset = SliceFromStart(endpoint.data, endpoint.itemsPerMessage), !.calls = Append(@, SliceFromStart(endpoint.data, endpoint.itemsPerMessage)), !.pc = "sending"]
    /\ UNCHANGED <<items, attrs, getAttrs, getLimit, pc, setVariableData, itemsPerMessageSetVariables, flags, correlationId, confirmation, setVariablesResponseJsonString, history, outcome>>

\* Lines 73-80: sendCall resolves; a confirmation without payload makes the
\* final confirmation a failure holding the items of the chunk.  The list the
\* loop tests is left as it was.
ChunkConfirmed ==
    /\ endpoint.pc = "sending"
    /\ \E messageConfirmation \in MessageConfirmations :
        endpoint' = IF ~messageConfirmation.payload.present
                    THEN [endpoint EXCEPT !.finalMessageConfirmation = [success |-> FALSE, payload |-> PayloadOf(IF @.payload.present THEN @.payload.items \o endpoint.subset ELSE endpoint.subset)], !.pc = "loop"]
                    ELSE [endpoint EXCEPT !.pc = "loop"]
    /\ UNCHANGED <<items, attrs, getAttrs, getLimit, pc, setVariableData, itemsPerMessageSetVariables, flags, correlationId, confirmation, setVariablesResponseJsonString, history, outcome>>

\* Lines 71, 81: the list is empty; the final confirmation is returned.
LoopExit ==
    /\ endpoint.pc = "loop"
    /\ Len(endpoint.data) = 0
    /\ endpoint' = [endpoint EXCEPT !.result = ResultOf(endpoint.finalMessageConfirmation), !.pc = "returned"]
    /\ UNCHANGED <<items, attrs, getAttrs, getLimit, pc, setVariableData, itemsPerMessageSetVariables, flags, correlationId, confirmation, setVariablesResponseJsonString, history, outcome>>

\* Lines 84-85: the confirmation of the single sendCall is returned.
SingleConfirmed ==
    /\ endpoint.pc = "single"
    /\ \E messageConfirmation \in MessageConfirmations :
        endpoint' = [endpoint EXCEPT !.result = ResultOf(messageConfirmation), !.pc = "returned"]
    /\ UNCHANGED <<items, attrs, getAttrs, getLimit, pc, setVariableData, itemsPerMessageSetVariables, flags, correlationId, confirmation, setVariablesResponseJsonString, history, outcome>>

\* Lines 73, 84: sendCall rejects and the endpoint's promise rejects with it.
SendCallRejects ==
    /\ endpoint.pc \in {"sending", "single"}
    /\ endpoint' = [endpoint EXCEPT !.result = ErrorOf("send"), !.pc = "thrown"]
    /\ UNCHANGED <<items, attrs, getAttrs, getLimit, pc, setVariableData, itemsPerMessageSetVariables, flags, correlationId, confirmation, setVariablesResponseJsonString, history, outcome>>

\* An endpoint is called with a request of up to MaxItems items.
InitApi == InitStations({}, 0) /\ endpoint \in {Request(action, ItemList(n)) : action \in CallActions, n \in 0..MaxItems}

NextApi == ReadAllByQuery \/ ChunkSend \/ ChunkConfirmed \/ LoopExit \/ SingleConfirmed \/ SendCallRejects

SpecApi == InitApi /\ [][NextApi]_vars

\* The endpoint read exactly one record, whose value is a positive number.
OnePositiveRecord == Len(endpoint.attributes) = 1 /\ endpoint.itemsPerMessage.kind = "num" /\ endpoint.itemsPerMessage.val > 0

\* C16 (as stated): an endpoint that read one record with a positive value L and
\* was given n > 0 items sends no more than ceil(n/L) requests, the i-th with
\* the i-th run of L items of the list (the last with what is left), and has
\* sent exactly ceil(n/L) when it returns.
C16_EndpointChunksCoverRequest ==
    (OnePositiveRecord /\ Len(endpoint.data) > 0) =>
        LET n == Len(endpoint.data)
            l == endpoint.itemsPerMessage.val
        IN /\ Len(endpoint.calls) <= CeilDiv(n, l)
           /\ \A i \in 1..Len(endpoint.calls) : endpoint.calls[i] = SubSeq(endpoint.data, (i - 1) * l + 1, Min(i * l, n))
           /\ endpoint.pc = "returned" => Len(endpoint.calls) = CeilDiv(n, l)

\* C17 (as stated): an endpoint given an empty list makes no sendCall, whether
\* it read no record or one.
C17_EndpointEmptyListSendsNothing ==
    (endpoint.pc # "off" /\ endpoint.data = <<>> /\ Len(endpoint.attributes) <= 1) => endpoint.calls = <<>>

\* C18: an endpoint that read two or more records has thrown the violation
\* error and made no sendCall, whatever list it was given; and it throws that
\* error in no other case.
C18_EndpointTwoRecordsThrow ==
    /\ Len(endpoint.attributes) >= 2 => (endpoint.pc = "thrown" /\ endpoint.result = ErrorOf("Violation of Standard Component Structure") /\ endpoint.calls = <<>>)
    /\ endpoint.result.error = "Violation of Standard Component Structure" => Len(endpoint.attributes) >= 2

\* getVariables was given three items, read two records and threw.
C18_Witness == endpoint.action = "GetVariables" /\ Len(endpoint.data) = 3 /\ Len(endpoint.attributes) = 2 /\ endpoint.pc = "thrown" /\ endpoint.calls = <<>>
====
